---- MODULE Spec2Model ----
(***************************************************************************)
(* ArbitrageAnalyzer (src/arbitrage_analyzer.py): the greedy allocation    *)
(* optimizer find_optimal_allocation and the two single-category           *)
(* baselines, as a state machine.                                          *)
(*                                                                         *)
(* Numbers.  The source computes prices and rates in binary floating       *)
(* point.  Here prices are integers (multiples of one price unit) and a    *)
(* rate (revenue_per_watt, profit_per_watt, roi_percentage) is an exact    *)
(* fraction [num, den] with den > 0, compared by cross multiplication;     *)
(* the model therefore describes the source's arithmetic up to rounding.   *)
(* Money amounts (profit, revenue, cost) are units * power * rate, which   *)
(* is an integer because the rate's denominator is the device's power.     *)
(***************************************************************************)
EXTENDS Integers, Sequences, FiniteSets, TLC

\* ---------------------------------------------------------------- bounds
MaxPower == 3
MaxCap == 3
MaxPrice == 2
MaxEnergy == 1
MaxBudget == 4
MaxDevices == 2
MaxClock == 1
MaxHistory == 2

\* Power draws of a catalog entry; 0 and a negative value are the malformed
\* entries of an inventory row.
Powers == (0 - 1)..MaxPower
Caps == 1..MaxCap
Budgets == (0 - 1)..MaxBudget
Timestamps == 0..MaxClock

\* The two concurrent-capable call frames of one analyzer object.
Calls == {"c1", "c2"}

\* A DeviceSpec as stored under inventory['miners'] / inventory['inference']:
\* 'power' and 'hashrate' / 'tokens' (cap).
Specs == [power : 1..MaxPower, cap : Caps] \cup [power : Powers \ (1..MaxPower), cap : {1}]

SeqsUpTo(S, n) == UNION {[1..k -> S] : k \in 0..n}

\* The ordered mappings subtype -> specs; a subtype is named by its position
\* of insertion, so keys are unique within a category.
Catalogs ==
  {inv \in [miners : SeqsUpTo(Specs, MaxDevices), inference : SeqsUpTo(Specs, MaxDevices)] :
     Len(inv.miners) + Len(inv.inference) <= MaxDevices}

PriceSnapshots ==
  [energy_price : 0..MaxEnergy, hash_price : 0..MaxPrice, token_price : 0..MaxPrice]

\* ------------------------------------------------------------ arithmetic
\* n / d for d # 0, as a fraction with a positive denominator.
Rat(n, d) == IF d < 0 THEN [num |-> 0 - n, den |-> 0 - d] ELSE [num |-> n, den |-> d]

RatSubInt(r, k) == [num |-> r.num - k * r.den, den |-> r.den]

RatGT(a, b) == a.num * b.den > b.num * a.den

RatLEZero(r) == r.num <= 0

\* k * r where r.den divides k (k is units * power, r.den is |power|).
IntTimesRat(k, r) == (k * r.num) \div r.den

\* Python's a // b on integers: floor division, either sign of b (b # 0).
FloorDiv(a, b) == IF b < 0 THEN (0 - a) \div (0 - b) ELSE a \div b

NegInf == [num |-> 0 - 1, den |-> 0]

\* x > best, where best may be -inf.
GTBest(x, best) == IF best.den = 0 THEN TRUE ELSE RatGT(x, best)

ZeroRoi == [num |-> 0, den |-> 1]

\* The quotient without its guard.
RoiUnguarded(profit, cost) == [num |-> 100 * profit, den |-> cost]

\* (total_profit / total_cost * 100) if total_cost > 0 else 0
Roi(profit, cost) == IF cost > 0 THEN [num |-> 100 * profit, den |-> cost] ELSE ZeroRoi

\* ------------------------------------------------ find_optimal_allocation
\* One element of machine_efficiency, for the device at position k of its
\* category; price is the category's price (hash_price / token_price).
MachineEfficiency(type, k, specs, price, energy_price) ==
  LET revenue_per_watt == Rat(specs.cap * price, specs.power)
      cost_per_watt == energy_price
  IN [type |-> type,
      subtype |-> k,
      power |-> specs.power,
      profit_per_watt |-> RatSubInt(revenue_per_watt, cost_per_watt),
      revenue_per_watt |-> revenue_per_watt,
      capability |-> specs.cap]

\* The two "Analyze" loops: miners first, then inference, in mapping order.
BuildEfficiency(inv, prices) ==
  [k \in 1..Len(inv.miners) |->
     MachineEfficiency("miner", k, inv.miners[k], prices.hash_price, prices.energy_price)]
  \o
  [k \in 1..Len(inv.inference) |->
     MachineEfficiency("inference", k, inv.inference[k], prices.token_price, prices.energy_price)]

\* A division by specs['power'] = 0 raises ZeroDivisionError.
DividesByZero(devs) == \E k \in 1..Len(devs) : devs[k].power = 0

\* x goes ahead of the elements whose key equals its own: equal keys come
\* out in reverse catalog order.
InsertDescAhead(sorted, x) ==
  LET ahead == {j \in 1..Len(sorted) : RatGT(sorted[j].profit_per_watt, x.profit_per_watt)}
      n == Cardinality(ahead)
  IN SubSeq(sorted, 1, n) \o <<x>> \o SubSeq(sorted, n + 1, Len(sorted))

\* x goes behind every element whose key is >= its own: the sort is stable.
InsertDesc(sorted, x) ==
  LET ahead == {j \in 1..Len(sorted) : ~RatGT(x.profit_per_watt, sorted[j].profit_per_watt)}
      n == Cardinality(ahead)
  IN SubSeq(sorted, 1, n) \o <<x>> \o SubSeq(sorted, n + 1, Len(sorted))

\* The list left in catalog order.
Unsorted(s) == s

RECURSIVE SortDesc(_)
\* machine_efficiency.sort(key=profit_per_watt, reverse=True)
SortDesc(s) ==
  IF s = <<>> THEN <<>>
  ELSE InsertDesc(SortDesc(SubSeq(s, 1, Len(s) - 1)), s[Len(s)])

\* The filter with < in place of <=.
UnprofitableStrict(machine) == machine.profit_per_watt.num < 0

\* The loop without its filter: no machine is passed over.
UnprofitableNever(machine) == FALSE

\* if machine['profit_per_watt'] <= 0: continue
Unprofitable(machine) == RatLEZero(machine.profit_per_watt)

\* The division taken on one watt less than remains.
MaxUnitsShort(remaining_power, power) == FloorDiv(remaining_power - 1, power)

\* The division rounded up instead of down.
MaxUnitsCeil(remaining_power, power) == FloorDiv(remaining_power + power - 1, power)

\* One unit of a machine that fits, however many would.
MaxUnitsOne(remaining_power, power) ==
  IF FloorDiv(remaining_power, power) > 0 THEN 1 ELSE 0

\* max_units = remaining_power // machine['power']
MaxUnits(remaining_power, power) == FloorDiv(remaining_power, power)

\* The entry with its cost charged per unit, not per watt used.
AllocationEntryPerUnit(machine, max_units, energy_price) ==
  [units |-> max_units,
   type |-> machine.type,
   subtype |-> machine.subtype,
   power_used |-> max_units * machine.power,
   profit |-> IntTimesRat(max_units * machine.power, machine.profit_per_watt),
   revenue |-> IntTimesRat(max_units * machine.power, machine.revenue_per_watt),
   cost |-> max_units * energy_price]

\* The value stored under allocation[f"{subtype}_{type}"].
AllocationEntry(machine, max_units, energy_price) ==
  [units |-> max_units,
   type |-> machine.type,
   subtype |-> machine.subtype,
   power_used |-> max_units * machine.power,
   profit |-> IntTimesRat(max_units * machine.power, machine.profit_per_watt),
   revenue |-> IntTimesRat(max_units * machine.power, machine.revenue_per_watt),
   cost |-> max_units * machine.power * energy_price]

\* The mapping that keeps its latest entry only.
DictSetOnly(allocation, entry) == <<entry>>

\* allocation[key] = value on an insertion-ordered mapping.
DictSet(allocation, entry) ==
  IF \E j \in 1..Len(allocation) :
       allocation[j].type = entry.type /\ allocation[j].subtype = entry.subtype
  THEN [j \in 1..Len(allocation) |->
          IF allocation[j].type = entry.type /\ allocation[j].subtype = entry.subtype
          THEN entry ELSE allocation[j]]
  ELSE Append(allocation, entry)

\* The dictionary find_optimal_allocation returns.
Plan(f, limit, timestamp) ==
  [kind |-> "plan",
   allocation |-> f.allocation,
   total_power_used |-> limit - f.remaining_power,
   total_profit |-> f.total_profit,
   total_revenue |-> f.total_revenue,
   total_cost |-> f.total_cost,
   roi_percentage |-> Roi(f.total_profit, f.total_cost),
   prices |-> f.prices,
   timestamp |-> timestamp]

Raised(error) == [kind |-> "raised", error |-> error]

NoResult == [kind |-> "none"]

\* ------------------------------------------------------- baseline strategies
RECURSIVE BestFrom(_, _, _, _, _)
\* The selection loop of a baseline from position k on: the position of the
\* device kept in best_miner / best_compute (0 for None).
BestFrom(devs, price, energy_price, k, best) ==
  IF k > Len(devs) THEN best.at
  ELSE LET profit_per_watt == RatSubInt(Rat(devs[k].cap * price, devs[k].power), energy_price)
       IN IF GTBest(profit_per_watt, best.profit_per_watt)
          THEN BestFrom(devs, price, energy_price, k + 1,
                        [at |-> k, profit_per_watt |-> profit_per_watt])
          ELSE BestFrom(devs, price, energy_price, k + 1, best)

\* The selection without its comparison: the first device of the category.
BestFirst(devs, price, energy_price) == IF Len(devs) = 0 THEN 0 ELSE 1

Best(devs, price, energy_price) ==
  BestFrom(devs, price, energy_price, 1, [at |-> 0, profit_per_watt |-> NegInf])

ZeroSummary ==
  [kind |-> "summary", total_profit |-> 0, total_revenue |-> 0, total_cost |-> 0,
   roi_percentage |-> ZeroRoi]

\* The body shared by _mining_only_strategy and _inference_only_strategy.
SingleCategory(devs, price, energy_price, limit) ==
  IF DividesByZero(devs) THEN Raised("ZeroDivisionError")
  ELSE LET b == Best(devs, price, energy_price)
       IN IF b = 0 THEN ZeroSummary
          ELSE LET units == FloorDiv(limit, devs[b].power)
                   total_power == units * devs[b].power
                   total_revenue == units * devs[b].cap * price
                   total_cost == total_power * energy_price
               IN [kind |-> "summary",
                   total_profit |-> total_revenue - total_cost,
                   total_revenue |-> total_revenue,
                   total_cost |-> total_cost,
                   roi_percentage |-> Roi(total_revenue - total_cost, total_cost)]

mining_only_strategy(inv, limit, prices) ==
  SingleCategory(inv.miners, prices.hash_price, prices.energy_price, limit)

inference_only_strategy(inv, limit, prices) ==
  SingleCategory(inv.inference, prices.token_price, prices.energy_price, limit)

\* ------------------------------------------------------------------ state
VARIABLES
  inventory,         \* self.inventory: the device catalog
  site_power_limit,  \* self.site_power_limit: the power budget
  frame,             \* per call: the arguments and locals of the running call
  result,            \* per call: what the call returned or raised
  pricing,           \* the pricing table of the database, as the query reads it
  sim,               \* the arguments and locals of simulate_strategy
  sim_results,       \* what simulate_strategy returned or raised
  api,               \* the price API: its answers to the next two requests
  current_prices     \* what get_latest_prices returned or raised

vars ==
  <<inventory, site_power_limit, frame, result, pricing, sim, sim_results, api,
    current_prices>>

\* An answer of the price API: the status of the response and the list in
\* its body; status 0 stands for no response (requests.get raises).
ApiDown == [status |-> 0, body |-> <<>>]

\* The database before the collector has created the pricing table.
NoTable == [exists |-> FALSE, rows |-> <<>>]

\* simulate_strategy is not running.
IdleSim == [pc |-> "idle", strategy |-> "none", df |-> <<>>, k |-> 0, results |-> <<>>]

NoPrices == [energy_price |-> 0, hash_price |-> 0, token_price |-> 0]

IdleFrame ==
  [pc |-> "idle", strategy |-> "none", prices |-> NoPrices, machine_efficiency |-> <<>>,
   i |-> 0, allocation |-> <<>>, remaining_power |-> 0,
   total_profit |-> 0, total_revenue |-> 0, total_cost |-> 0]

\* The frame of a call that has returned or raised: its arguments stay on
\* record, its locals are gone.
DoneFrame(strategy, prices) == [IdleFrame EXCEPT !.pc = "done", !.strategy = strategy, !.prices = prices]

\* The analyzer after construction; the catalog is whatever load_inventory
\* delivered and the budget whatever its owner set.
Init ==
  /\ inventory \in Catalogs
  /\ site_power_limit \in Budgets
  /\ frame = [c \in Calls |-> IdleFrame]
  /\ result = [c \in Calls |-> NoResult]
  /\ pricing = NoTable
  /\ sim = IdleSim
  /\ sim_results = NoResult
  /\ api = <<ApiDown, ApiDown>>
  /\ current_prices = NoResult

\* ---------------------------------------------------------------- actions
\* The power the plans still held in other frames have used.
HeldPower(c) ==
  LET d == CHOOSE x \in Calls : x # c
  IN IF result[d].kind = "plan" THEN result[d].total_power_used ELSE 0

\* The call that starts from the budget left over by the plans still held,
\* as if an earlier call had consumed the analyzer's budget.
StartCarryOver(c, p) ==
  /\ frame[c].pc = "idle"
  /\ IF DividesByZero(inventory.miners) \/ DividesByZero(inventory.inference)
     THEN /\ frame' = [frame EXCEPT ![c] = DoneFrame("optimal", p)]
          /\ result' = [result EXCEPT ![c] = Raised("ZeroDivisionError")]
     ELSE /\ frame' = [frame EXCEPT ![c] =
                 [pc |-> "walk", strategy |-> "optimal", prices |-> p,
                  machine_efficiency |-> SortDesc(BuildEfficiency(inventory, p)),
                  i |-> 1, allocation |-> <<>>,
                  remaining_power |-> site_power_limit - HeldPower(c),
                  total_profit |-> 0, total_revenue |-> 0, total_cost |-> 0]]
          /\ UNCHANGED result
  /\ UNCHANGED <<api, current_prices, pricing, sim, sim_results, inventory, site_power_limit>>

\* find_optimal_allocation(current_prices = p) up to the head of the greedy
\* loop: both Analyze loops, the sort, and the initial locals.
Start(c, p) ==
  /\ frame[c].pc = "idle"
  /\ IF DividesByZero(inventory.miners) \/ DividesByZero(inventory.inference)
     THEN /\ frame' = [frame EXCEPT ![c] = DoneFrame("optimal", p)]
          /\ result' = [result EXCEPT ![c] = Raised("ZeroDivisionError")]
     ELSE /\ frame' = [frame EXCEPT ![c] =
                 [pc |-> "walk", strategy |-> "optimal", prices |-> p,
                  machine_efficiency |-> SortDesc(BuildEfficiency(inventory, p)),
                  i |-> 1, allocation |-> <<>>,
                  remaining_power |-> site_power_limit,
                  total_profit |-> 0, total_revenue |-> 0, total_cost |-> 0]]
          /\ UNCHANGED result
  /\ UNCHANGED <<api, current_prices, pricing, sim, sim_results, inventory, site_power_limit>>

\* The machine the greedy loop is looking at.
AtMachine(c) ==
  /\ frame[c].pc = "walk"
  /\ frame[c].i <= Len(frame[c].machine_efficiency)

Machine(c) == frame[c].machine_efficiency[frame[c].i]

\* One iteration that hits "continue": the machine is unprofitable.
SkipUnprofitable(c) ==
  /\ AtMachine(c)
  /\ Unprofitable(Machine(c))
  /\ frame' = [frame EXCEPT ![c].i = @ + 1]
  /\ UNCHANGED <<api, current_prices, pricing, sim, sim_results, inventory, site_power_limit, result>>

\* One iteration with max_units <= 0 that ends the loop.
SkipNoFitBreak(c) ==
  /\ AtMachine(c)
  /\ ~Unprofitable(Machine(c))
  /\ ~(MaxUnits(frame[c].remaining_power, Machine(c).power) > 0)
  /\ frame' = [frame EXCEPT ![c].i = Len(frame[c].machine_efficiency) + 1]
  /\ UNCHANGED <<api, current_prices, pricing, sim, sim_results, inventory, site_power_limit, result>>

\* One iteration with max_units <= 0: nothing is stored.
SkipNoFit(c) ==
  /\ AtMachine(c)
  /\ ~Unprofitable(Machine(c))
  /\ ~(MaxUnits(frame[c].remaining_power, Machine(c).power) > 0)
  /\ frame' = [frame EXCEPT ![c].i = @ + 1]
  /\ UNCHANGED <<api, current_prices, pricing, sim, sim_results, inventory, site_power_limit, result>>

\* One iteration with max_units > 0 that also takes the power it uses out of
\* the analyzer's budget.
AllocateShared(c) ==
  /\ AtMachine(c)
  /\ ~Unprofitable(Machine(c))
  /\ LET f == frame[c]
         max_units == MaxUnits(f.remaining_power, Machine(c).power)
         entry == AllocationEntry(Machine(c), max_units, f.prices.energy_price)
     IN /\ max_units > 0
        /\ frame' = [frame EXCEPT ![c] =
              [f EXCEPT !.i = @ + 1,
                        !.allocation = DictSet(@, entry),
                        !.remaining_power = @ - max_units * Machine(c).power,
                        !.total_profit = @ + entry.profit,
                        !.total_revenue = @ + entry.revenue,
                        !.total_cost = @ + entry.cost]]
        /\ site_power_limit' = site_power_limit - max_units * Machine(c).power
  /\ UNCHANGED <<api, current_prices, pricing, sim, sim_results, inventory, result>>

\* One iteration with max_units > 0: the entry is stored, the remaining
\* power reduced and the totals accumulated.
Allocate(c) ==
  /\ AtMachine(c)
  /\ ~Unprofitable(Machine(c))
  /\ LET f == frame[c]
         max_units == MaxUnits(f.remaining_power, Machine(c).power)
         entry == AllocationEntry(Machine(c), max_units, f.prices.energy_price)
     IN /\ max_units > 0
        /\ frame' = [frame EXCEPT ![c] =
              [f EXCEPT !.i = @ + 1,
                        !.allocation = DictSet(@, entry),
                        !.remaining_power = @ - max_units * Machine(c).power,
                        !.total_profit = @ + entry.profit,
                        !.total_revenue = @ + entry.revenue,
                        !.total_cost = @ + entry.cost]]
  /\ UNCHANGED <<api, current_prices, pricing, sim, sim_results, inventory, site_power_limit, result>>

\* The loop is over: the plan is built and returned; datetime.now() reads t.
Return(c, t) ==
  /\ frame[c].pc = "walk"
  /\ frame[c].i > Len(frame[c].machine_efficiency)
  /\ result' = [result EXCEPT ![c] = Plan(frame[c], site_power_limit, t)]
  /\ frame' = [frame EXCEPT ![c] = DoneFrame("optimal", frame[c].prices)]
  /\ UNCHANGED <<api, current_prices, pricing, sim, sim_results, inventory, site_power_limit>>

\* _mining_only_strategy(p)
MiningOnly(c, p) ==
  /\ frame[c].pc = "idle"
  /\ result' = [result EXCEPT ![c] = mining_only_strategy(inventory, site_power_limit, p)]
  /\ frame' = [frame EXCEPT ![c] = DoneFrame("mining_only", p)]
  /\ UNCHANGED <<api, current_prices, pricing, sim, sim_results, inventory, site_power_limit>>

\* _inference_only_strategy(p)
InferenceOnly(c, p) ==
  /\ frame[c].pc = "idle"
  /\ result' = [result EXCEPT ![c] = inference_only_strategy(inventory, site_power_limit, p)]
  /\ frame' = [frame EXCEPT ![c] = DoneFrame("inference_only", p)]
  /\ UNCHANGED <<api, current_prices, pricing, sim, sim_results, inventory, site_power_limit>>

\* The caller lets go of the results it holds; no call is running.
Drop ==
  /\ \A c \in Calls : frame[c].pc # "walk"
  /\ \E c \in Calls : frame[c].pc = "done"
  /\ frame' = [c \in Calls |-> IdleFrame]
  /\ result' = [c \in Calls |-> NoResult]
  /\ UNCHANGED <<api, current_prices, pricing, sim, sim_results, inventory, site_power_limit>>

\* A single-threaded caller making one call after another on frame c1.
Next ==
  \/ \E p \in PriceSnapshots : Start("c1", p)
  \/ \E p \in PriceSnapshots : MiningOnly("c1", p)
  \/ \E p \in PriceSnapshots : InferenceOnly("c1", p)
  \/ SkipUnprofitable("c1")
  \/ SkipNoFit("c1")
  \/ Allocate("c1")
  \/ \E t \in Timestamps : Return("c1", t)
  \/ Drop

Spec == Init /\ [][Next]_vars

\* The optimizer is called a second time, on frame c2, with the snapshot of
\* the call on c1 whose outcome the caller still holds.
Again ==
  /\ frame["c1"].pc = "done"
  /\ frame["c1"].strategy = "optimal"
  /\ Start("c2", frame["c1"].prices)

NextTwice ==
  \/ Next
  \/ Again
  \/ SkipUnprofitable("c2")
  \/ SkipNoFit("c2")
  \/ Allocate("c2")
  \/ \E t \in Timestamps : Return("c2", t)

\* The single-threaded caller that may repeat an optimizer call.
SpecTwice == Init /\ [][NextTwice]_vars

\* -------------------------------------------------------- simulate_strategy
Strategies == {"optimal", "mining_only", "inference_only"}

\* A row of the pricing table: the feed's timestamp and the three prices.
Rows ==
  [timestamp : Timestamps, energy_price : 0..MaxEnergy,
   hash_price : {MaxPrice}, token_price : 0..MaxPrice]

\* The table as the query reads it: absent, or its rows of the last hours
\* ordered by collected_at.
Tables ==
  {NoTable} \cup [exists : {TRUE}, rows : SeqsUpTo(Rows, MaxHistory)]

\* The prices dict built from a row.
RowPrices(row) ==
  [energy_price |-> row.energy_price, hash_price |-> row.hash_price,
   token_price |-> row.token_price]

\* The record appended for a row and the result of its strategy call.
Record(row, r) ==
  [timestamp |-> row.timestamp, profit |-> r.total_profit, revenue |-> r.total_revenue,
   cost |-> r.total_cost, roi |-> r.roi_percentage]

\* return None
NoneValue == [kind |-> "returned_none"]

\* pd.DataFrame(results)
DataFrame(results) == [kind |-> "frame", records |-> results]

\* simulate_strategy is over: its arguments stay on record, its locals are gone.
DoneSim(strategy) == [IdleSim EXCEPT !.pc = "done", !.strategy = strategy]

\* An analyzer with one device per category and the whole budget, and a
\* database whose pricing table may be absent, empty or hold some rows.
InitSim ==
  /\ inventory \in {inv \in Catalogs : Len(inv.miners) = 1 /\ Len(inv.inference) = 1}
  /\ site_power_limit = MaxBudget
  /\ frame = [c \in Calls |-> IdleFrame]
  /\ result = [c \in Calls |-> NoResult]
  /\ pricing \in Tables
  /\ sim = IdleSim
  /\ sim_results = NoResult
  /\ api = <<ApiDown, ApiDown>>
  /\ current_prices = NoResult

\* simulate_strategy that hands an empty frame over when there is no row.
SimStartEmptyFrame(strategy) ==
  /\ sim.pc = "idle"
  /\ IF ~pricing.exists \/ pricing.rows = <<>>
     THEN /\ sim' = DoneSim(strategy)
          /\ sim_results' = DataFrame(<<>>)
     ELSE /\ sim' = [pc |-> "loop", strategy |-> strategy, df |-> pricing.rows,
                     k |-> 1, results |-> <<>>]
          /\ UNCHANGED sim_results
  /\ UNCHANGED <<api, current_prices, inventory, site_power_limit, frame, result, pricing>>

\* simulate_strategy(strategy) up to the head of its loop: the table check,
\* the query, the empty check, results = [].
SimStart(strategy) ==
  /\ sim.pc = "idle"
  /\ IF ~pricing.exists \/ pricing.rows = <<>>
     THEN /\ sim' = DoneSim(strategy)
          /\ sim_results' = NoneValue
     ELSE /\ sim' = [pc |-> "loop", strategy |-> strategy, df |-> pricing.rows,
                     k |-> 1, results |-> <<>>]
          /\ UNCHANGED sim_results
  /\ UNCHANGED <<api, current_prices, inventory, site_power_limit, frame, result, pricing>>

\* The loop stands at row k and its strategy call has not been made.
AtRow ==
  /\ sim.pc = "loop"
  /\ sim.k <= Len(sim.df)
  /\ frame["c1"].pc = "idle"

\* The loop body's call, by strategy, on the prices of row k.
SimOptimal == AtRow /\ sim.strategy = "optimal" /\ Start("c1", RowPrices(sim.df[sim.k]))

SimMiningOnly == AtRow /\ sim.strategy = "mining_only" /\ MiningOnly("c1", RowPrices(sim.df[sim.k]))

SimInferenceOnly ==
  AtRow /\ sim.strategy = "inference_only" /\ InferenceOnly("c1", RowPrices(sim.df[sim.k]))

\* The call came back with a result, which is put in front of the earlier
\* records instead of behind them.
SimAppendFront ==
  /\ sim.pc = "loop"
  /\ frame["c1"].pc = "done"
  /\ result["c1"].kind \in {"plan", "summary"}
  /\ sim' = [sim EXCEPT !.results = <<Record(sim.df[sim.k], result["c1"])>> \o @, !.k = @ + 1]
  /\ frame' = [frame EXCEPT !["c1"] = IdleFrame]
  /\ result' = [result EXCEPT !["c1"] = NoResult]
  /\ UNCHANGED <<api, current_prices, inventory, site_power_limit, pricing, sim_results>>

\* The call came back with a result: results.append({...}) and on to the
\* next row.
SimAppend ==
  /\ sim.pc = "loop"
  /\ frame["c1"].pc = "done"
  /\ result["c1"].kind \in {"plan", "summary"}
  /\ sim' = [sim EXCEPT !.results = Append(@, Record(sim.df[sim.k], result["c1"])), !.k = @ + 1]
  /\ frame' = [frame EXCEPT !["c1"] = IdleFrame]
  /\ result' = [result EXCEPT !["c1"] = NoResult]
  /\ UNCHANGED <<api, current_prices, inventory, site_power_limit, pricing, sim_results>>

\* The call raised inside the loop, where nothing catches it, and what was
\* collected is handed over all the same.
SimRaisePartial ==
  /\ sim.pc = "loop"
  /\ frame["c1"].pc = "done"
  /\ result["c1"].kind = "raised"
  /\ sim' = DoneSim(sim.strategy)
  /\ sim_results' = DataFrame(sim.results)
  /\ frame' = [frame EXCEPT !["c1"] = IdleFrame]
  /\ result' = [result EXCEPT !["c1"] = NoResult]
  /\ UNCHANGED <<api, current_prices, inventory, site_power_limit, pricing>>

\* The call raised inside the loop, where nothing catches it: the exception
\* leaves simulate_strategy and its locals are lost.
SimRaise ==
  /\ sim.pc = "loop"
  /\ frame["c1"].pc = "done"
  /\ result["c1"].kind = "raised"
  /\ sim' = DoneSim(sim.strategy)
  /\ sim_results' = result["c1"]
  /\ frame' = [frame EXCEPT !["c1"] = IdleFrame]
  /\ result' = [result EXCEPT !["c1"] = NoResult]
  /\ UNCHANGED <<api, current_prices, inventory, site_power_limit, pricing>>

\* The loop is over: return pd.DataFrame(results).
SimReturn ==
  /\ sim.pc = "loop"
  /\ sim.k > Len(sim.df)
  /\ sim' = DoneSim(sim.strategy)
  /\ sim_results' = DataFrame(sim.results)
  /\ UNCHANGED <<api, current_prices, inventory, site_power_limit, frame, result, pricing>>

NextSim ==
  \/ \E strategy \in Strategies : SimStart(strategy)
  \/ SimOptimal
  \/ SimMiningOnly
  \/ SimInferenceOnly
  \/ SkipUnprofitable("c1")
  \/ SkipNoFit("c1")
  \/ Allocate("c1")
  \/ \E t \in Timestamps : Return("c1", t)
  \/ SimAppend
  \/ SimRaise
  \/ SimReturn

\* One run of simulate_strategy over the table.
SpecSim == InitSim /\ [][NextSim]_vars

\* ------------------------------------------------------ the default analyzer
\* Power is counted in steps of 500 W, capability in thousands and money as
\* it is, so that the default analyzer's amounts are integers: a price per
\* watt becomes a price per 500 W, a price per capability a price per
\* thousand. Floor division by a power is unchanged by the common factor.
Watts(w) == w \div 500

Thousands(n) == n \div 1000

\* The default inventory of load_inventory, in mapping order.
DefaultInventory ==
  [miners |-> << [power |-> Watts(3500), cap |-> Thousands(1000)],       \* air
                 [power |-> Watts(5000), cap |-> Thousands(5000)],       \* hydro
                 [power |-> Watts(10000), cap |-> Thousands(10000)] >>,  \* immersion
   inference |-> << [power |-> Watts(5000), cap |-> Thousands(1000)],    \* gpu
                    [power |-> Watts(15000), cap |-> Thousands(50000)] >>]  \* asic

\* energy 0.65, hash 8.5, token 3.0
DefaultPrices ==
  [energy_price |-> 65 * 5, hash_price |-> 85 * 100, token_price |-> 3 * 1000]

\* Snapshots around the default one: dearer energy, worthless hash or tokens.
ExamplePrices ==
  [energy_price : {DefaultPrices.energy_price, 4250, 6000},
   hash_price : {0, DefaultPrices.hash_price},
   token_price : {0, DefaultPrices.token_price}]

\* The default analyzer, its budget 1,000,000 W or one its owner set lower.
InitExample ==
  /\ inventory = DefaultInventory
  /\ site_power_limit \in {Watts(1000000), Watts(500000), Watts(10000), Watts(3000)}
  /\ frame = [c \in Calls |-> IdleFrame]
  /\ result = [c \in Calls |-> NoResult]
  /\ pricing = NoTable
  /\ sim = IdleSim
  /\ sim_results = NoResult
  /\ api = <<ApiDown, ApiDown>>
  /\ current_prices = NoResult

NextExample ==
  \/ \E p \in ExamplePrices : Start("c1", p)
  \/ SkipUnprofitable("c1")
  \/ SkipNoFit("c1")
  \/ Allocate("c1")
  \/ \E t \in Timestamps : Return("c1", t)

\* One call of the optimizer on the default analyzer.
SpecExample == InitExample /\ [][NextExample]_vars

\* ------------------------------------------------------- concurrent callers
\* The snapshots of the concurrent callers: energy at its ceiling, hash and
\* token price low or high.
ConcPrices ==
  [energy_price : {MaxEnergy}, hash_price : {1, MaxPrice}, token_price : {1, MaxPrice}]

\* An analyzer with one device per category shared by two callers.
InitConc ==
  /\ inventory \in {inv \in Catalogs : Len(inv.miners) = 1 /\ Len(inv.inference) = 1}
  /\ site_power_limit \in {MaxBudget - 1, MaxBudget}
  /\ frame = [c \in Calls |-> IdleFrame]
  /\ result = [c \in Calls |-> NoResult]
  /\ pricing = NoTable
  /\ sim = IdleSim
  /\ sim_results = NoResult
  /\ api = <<ApiDown, ApiDown>>
  /\ current_prices = NoResult

\* Each caller makes one allocation call; the steps of the two calls
\* interleave in any order.
NextConc ==
  \E c \in Calls :
    \/ \E p \in ConcPrices : Start(c, p)
    \/ \E p \in ConcPrices : MiningOnly(c, p)
    \/ \E p \in ConcPrices : InferenceOnly(c, p)
    \/ SkipUnprofitable(c)
    \/ SkipNoFit(c)
    \/ Allocate(c)
    \/ \E t \in Timestamps : Return(c, t)

\* Two threads calling into one analyzer.
SpecConc == InitConc /\ [][NextConc]_vars

\* -------------------------------------------------------- get_latest_prices
\* return {...}: a snapshot handed back.
Snapshot(p) == [kind |-> "prices", prices |-> p]

\* The snapshot the API serves when it has one.
ApiPrices == [DefaultPrices EXCEPT !.energy_price = 6000]

\* What a request to the API can meet: no response, 200 with a list of one
\* snapshot, 200 with an empty list, a status other than 200.
ApiAnswers ==
  {ApiDown, [status |-> 200, body |-> <<ApiPrices>>], [status |-> 200, body |-> <<>>],
   [status |-> 500, body |-> <<>>]}

\* The rows the collector may have stored, in the units of the default
\* analyzer.
LatestRows ==
  [timestamp : Timestamps, energy_price : {4250},
   hash_price : {0, DefaultPrices.hash_price}, token_price : {DefaultPrices.token_price}]

\* The except branch: one more request; its first snapshot on 200 with
\* data, the default prices otherwise; a request without response raises
\* out of the function.
ExceptBranch(answer) ==
  IF answer.status = 0 THEN Raised("ConnectionError")
  ELSE IF answer.status = 200 /\ answer.body # <<>> THEN Snapshot(answer.body[1])
  ELSE Snapshot(DefaultPrices)

\* get_latest_prices() on the table as it is, the API giving answers[1] to
\* the first request and answers[2] to the second.
get_latest_prices(table, answers) ==
  IF ~table.exists
  THEN \* no pricing table: ask the API
       IF answers[1].status = 200 /\ answers[1].body # <<>>
       THEN Snapshot(answers[1].body[1])
       ELSE \* no response, a raise on a status other than 200, or the query
            \* on the missing table after 200 with an empty list
            ExceptBranch(answers[2])
  ELSE IF table.rows = <<>>
  THEN \* df.empty: ask the API
       IF answers[1].status = 0 THEN ExceptBranch(answers[2])
       ELSE IF answers[1].status = 200 /\ answers[1].body # <<>>
       THEN Snapshot(answers[1].body[1])
       ELSE \* neither branch returns: the function runs off its end
            NoneValue
  ELSE \* the row of the latest collected_at
       Snapshot(RowPrices(table.rows[Len(table.rows)]))

\* The default analyzer in front of a database and a price API in any of
\* their states.
InitLatest ==
  /\ inventory = DefaultInventory
  /\ site_power_limit \in {Watts(1000000), Watts(10000)}
  /\ frame = [c \in Calls |-> IdleFrame]
  /\ result = [c \in Calls |-> NoResult]
  /\ pricing \in {NoTable} \cup [exists : {TRUE}, rows : SeqsUpTo(LatestRows, MaxHistory)]
  /\ sim = IdleSim
  /\ sim_results = NoResult
  /\ api \in [1..2 -> ApiAnswers]
  /\ current_prices = NoResult

\* find_optimal_allocation() without prices: current_prices =
\* self.get_latest_prices()
GetLatestPrices ==
  /\ frame["c1"].pc = "idle"
  /\ current_prices = NoResult
  /\ current_prices' = get_latest_prices(pricing, api)
  /\ UNCHANGED <<inventory, site_power_limit, frame, result, pricing, sim, sim_results, api>>

\* ... and on with the snapshot it got.
StartLatest ==
  /\ current_prices.kind = "prices"
  /\ Start("c1", current_prices.prices)

\* ... and on with None: current_prices['hash_price'] raises TypeError.
StartNone ==
  /\ frame["c1"].pc = "idle"
  /\ current_prices = NoneValue
  /\ frame' = [frame EXCEPT !["c1"] = DoneFrame("optimal", NoPrices)]
  /\ result' = [result EXCEPT !["c1"] = Raised("TypeError")]
  /\ UNCHANGED <<inventory, site_power_limit, pricing, sim, sim_results, api, current_prices>>

\* get_latest_prices raised: the exception leaves find_optimal_allocation.
StartRaised ==
  /\ frame["c1"].pc = "idle"
  /\ current_prices.kind = "raised"
  /\ frame' = [frame EXCEPT !["c1"] = DoneFrame("optimal", NoPrices)]
  /\ result' = [result EXCEPT !["c1"] = current_prices]
  /\ UNCHANGED <<inventory, site_power_limit, pricing, sim, sim_results, api, current_prices>>

NextLatest ==
  \/ GetLatestPrices
  \/ StartLatest
  \/ StartNone
  \/ StartRaised
  \/ SkipUnprofitable("c1")
  \/ SkipNoFit("c1")
  \/ Allocate("c1")
  \/ \E t \in Timestamps : Return("c1", t)

\* One call of the optimizer that has to find its prices itself.
SpecLatest == InitLatest /\ [][NextLatest]_vars

\* ------------------------------------------------------------- properties
\* Vocabulary of the properties, computed from the catalog and the snapshot
\* and not from the locals of a call.

\* Every catalog entry has powerWatts > 0.
ValidCatalog ==
  /\ \A k \in 1..Len(inventory.miners) : inventory.miners[k].power > 0
  /\ \A k \in 1..Len(inventory.inference) : inventory.inference[k].power > 0

\* The call on frame c was a call of the optimizer and is over.
OptDone(c) == frame[c].pc = "done" /\ frame[c].strategy = "optimal"

\* The call on frame c was a call of the optimizer and returned a plan.
Returned(c) == OptDone(c) /\ result[c].kind = "plan"

DeviceOf(type, k) == IF type = "miner" THEN inventory.miners[k] ELSE inventory.inference[k]

PriceOf(type, prices) == IF type = "miner" THEN prices.hash_price ELSE prices.token_price

\* Every device of the catalog, as <<category, position>>.
Devices ==
  ({"miner"} \X (1..Len(inventory.miners))) \cup ({"inference"} \X (1..Len(inventory.inference)))

\* profitPerWatt = capability * price / powerWatts - energyPrice, as the pair
\* (n, d) of the fraction n / d.
RateN(dev, prices) ==
  DeviceOf(dev[1], dev[2]).cap * PriceOf(dev[1], prices)
    - prices.energy_price * DeviceOf(dev[1], dev[2]).power

RateD(dev) == DeviceOf(dev[1], dev[2]).power

\* profitPerWatt > 0: numerator and denominator have the same sign.
Profitable(dev, prices) == RateN(dev, prices) * RateD(dev) > 0

\* profitPerWatt of a >= profitPerWatt of b (both denominators non-zero).
RateGE(a, b, prices) ==
  RateN(a, prices) * RateD(a) * RateD(b) * RateD(b)
    >= RateN(b, prices) * RateD(b) * RateD(a) * RateD(a)

RECURSIVE SumOver(_, _)
SumOver(entries, field) ==
  IF entries = <<>> THEN 0
  ELSE entries[1][field] + SumOver(Tail(entries), field)

EmptyPlan(r) ==
  /\ r.kind = "plan"
  /\ r.allocation = <<>>
  /\ r.total_power_used = 0
  /\ r.total_revenue = 0
  /\ r.total_cost = 0
  /\ r.total_profit = 0
  /\ r.roi_percentage = ZeroRoi

\* C1 (budget containment): on a catalog whose devices all have
\* powerWatts > 0 and with a power budget >= 0, every plan the optimizer
\* returns has total_power_used <= the power budget.
C1_BudgetContainment ==
  \A c \in Calls :
    (Returned(c) /\ ValidCatalog /\ site_power_limit >= 0)
      => result[c].total_power_used <= site_power_limit

\* A returned plan that uses some, but not all, of a valid budget.
C1_Witness ==
  \E c \in Calls :
    /\ Returned(c) /\ ValidCatalog /\ site_power_limit >= 0
    /\ result[c].total_power_used > 0
    /\ result[c].total_power_used < site_power_limit

\* The device a baseline selects is the head of the optimizer's sorted list.
HeadIs(type, devs, price, prices) ==
  LET sorted == SortDesc(BuildEfficiency(inventory, prices))
  IN /\ sorted # <<>>
     /\ sorted[1].type = type
     /\ sorted[1].subtype = Best(devs, price, prices.energy_price)

\* C2 as stated (baseline dominance): on a valid catalog and budget the
\* optimizer's total_profit is >= the total_profit of the mining-only and of
\* the inference-only strategy on the same inputs.
C2_BaselineDominance ==
  \A c \in Calls :
    (Returned(c) /\ ValidCatalog /\ site_power_limit >= 0)
      => /\ result[c].total_profit
              >= mining_only_strategy(inventory, site_power_limit, frame[c].prices).total_profit
         /\ result[c].total_profit
              >= inference_only_strategy(inventory, site_power_limit, frame[c].prices).total_profit

\* C2 amended: on a valid catalog and budget the optimizer's total_profit is
\* >= a baseline's total_profit whenever the device that baseline selects is
\* the device the optimizer considers first (the head of its sorted list).
C2_DominanceAtHead ==
  \A c \in Calls :
    (Returned(c) /\ ValidCatalog /\ site_power_limit >= 0)
      => LET p == frame[c].prices
         IN /\ HeadIs("miner", inventory.miners, p.hash_price, p)
                 => result[c].total_profit
                      >= mining_only_strategy(inventory, site_power_limit, p).total_profit
            /\ HeadIs("inference", inventory.inference, p.token_price, p)
                 => result[c].total_profit
                      >= inference_only_strategy(inventory, site_power_limit, p).total_profit

\* The optimizer beats a profitable mining-only baseline whose device is the
\* head of the sorted list, by filling the leftover with another device.
C2_Witness ==
  \E c \in Calls :
    /\ Returned(c) /\ ValidCatalog /\ site_power_limit >= 0
    /\ HeadIs("miner", inventory.miners, frame[c].prices.hash_price, frame[c].prices)
    /\ mining_only_strategy(inventory, site_power_limit, frame[c].prices).total_profit > 0
    /\ result[c].total_profit
         > mining_only_strategy(inventory, site_power_limit, frame[c].prices).total_profit

NoneProfitable(prices) == \A dev \in Devices : ~Profitable(dev, prices)

\* The budget is below the power of every profitable device.
BelowSmallest(prices) ==
  \A dev \in Devices : Profitable(dev, prices) => site_power_limit < RateD(dev)

\* C4 (empty plan): on well-formed input (valid catalog, budget >= 0) the
\* optimizer raises nothing, and returns the empty plan with all totals and
\* the ROI zero whenever no device is profitable or the budget is smaller
\* than the smallest power among the profitable devices; this covers the
\* empty catalog, the zero budget and all-zero hash/token prices.
C4_EmptyPlan ==
  \A c \in Calls :
    (OptDone(c) /\ ValidCatalog /\ site_power_limit >= 0)
      => /\ result[c].kind = "plan"
         /\ (NoneProfitable(frame[c].prices) \/ BelowSmallest(frame[c].prices))
              => EmptyPlan(result[c])

\* An empty plan returned although a device is profitable: the budget is
\* positive but too small for it.
C4_Witness ==
  \E c \in Calls :
    /\ OptDone(c) /\ ValidCatalog /\ site_power_limit > 0
    /\ ~NoneProfitable(frame[c].prices)
    /\ BelowSmallest(frame[c].prices)
    /\ EmptyPlan(result[c])

\* C5 as stated (InvalidCatalog): a call of the optimizer on a catalog with
\* an entry of powerWatts <= 0 ends by raising InvalidCatalog, and returns no
\* plan.
C5_InvalidCatalogRaised ==
  \A c \in Calls :
    (OptDone(c) /\ ~ValidCatalog) => result[c] = Raised("InvalidCatalog")

\* C6 as stated (InvalidBudget): a call of the optimizer with a negative
\* power budget ends by raising InvalidBudget, and returns no plan.
C6_InvalidBudgetRaised ==
  \A c \in Calls :
    (OptDone(c) /\ site_power_limit < 0) => result[c] = Raised("InvalidBudget")

\* C7 (profitability filter): every entry of a plan the optimizer returns
\* belongs to a device whose profitPerWatt is > 0 at the snapshot's prices.
C7_ProfitabilityFilter ==
  \A c \in Calls :
    Returned(c)
      => \A j \in 1..Len(result[c].allocation) :
           LET e == result[c].allocation[j]
           IN /\ <<e.type, e.subtype>> \in Devices
              /\ Profitable(<<e.type, e.subtype>>, frame[c].prices)

\* A returned plan with an entry, on a catalog that also holds a device
\* with profitPerWatt exactly 0 and fitting the budget, which has no entry.
C7_Witness ==
  \E c \in Calls :
    /\ Returned(c)
    /\ result[c].allocation # <<>>
    /\ \E dev \in Devices :
         /\ RateD(dev) > 0
         /\ RateD(dev) <= site_power_limit - result[c].total_power_used
         /\ RateN(dev, frame[c].prices) = 0

\* C8 (greedy ordering): the entries of a plan the optimizer returns are in
\* non-increasing profitPerWatt order: each entry's profitPerWatt is >= that
\* of every later entry.
C8_GreedyOrdering ==
  \A c \in Calls :
    Returned(c)
      => \A j, k \in 1..Len(result[c].allocation) :
           j < k => RateGE(<<result[c].allocation[j].type, result[c].allocation[j].subtype>>,
                           <<result[c].allocation[k].type, result[c].allocation[k].subtype>>,
                           frame[c].prices)

\* A returned plan of two entries of different profitPerWatt whose first
\* entry is an inference device: the sort moved it ahead of a miner.
C8_Witness ==
  \E c \in Calls :
    /\ Returned(c)
    /\ Len(result[c].allocation) = 2
    /\ result[c].allocation[1].type = "inference"
    /\ result[c].allocation[2].type = "miner"
    /\ ~RateGE(<<"miner", result[c].allocation[2].subtype>>,
               <<"inference", result[c].allocation[1].subtype>>, frame[c].prices)

\* A result with its timestamp blanked.
Untimed(r) == IF r.kind = "plan" THEN [r EXCEPT !.timestamp = 0] ELSE r

\* Both frames hold the outcome of an optimizer call on the same snapshot.
CalledTwice ==
  /\ OptDone("c1") /\ OptDone("c2")
  /\ frame["c1"].prices = frame["c2"].prices

HasRoi(r) == r.kind \in {"plan", "summary"}

\* C10 (division-by-zero safety): whenever total_cost = 0 the roi_percentage
\* of the optimizer's plan and of either baseline's summary is exactly 0, and
\* no roi_percentage is ever a quotient by zero.
C10_RoiSafe ==
  \A c \in Calls :
    (frame[c].pc = "done" /\ HasRoi(result[c]))
      => /\ result[c].roi_percentage.den > 0
         /\ result[c].total_cost = 0 => result[c].roi_percentage = ZeroRoi

\* A plan with an entry and revenue, at a total cost of zero.
C10_Witness ==
  \E c \in Calls :
    /\ Returned(c)
    /\ result[c].allocation # <<>>
    /\ result[c].total_cost = 0
    /\ result[c].total_revenue > 0

\* The call on frame c was a call of a baseline and returned its summary.
BaselineDone(c) ==
  /\ frame[c].pc = "done"
  /\ frame[c].strategy \in {"mining_only", "inference_only"}
  /\ result[c].kind = "summary"

\* The category a baseline strategy is restricted to.
CategoryOf(strategy) == IF strategy = "mining_only" THEN "miner" ELSE "inference"

DevicesOf(type) == {dev \in Devices : dev[1] = type}

\* The totals of floor(budget / powerWatts) units of one device.
TotalsOfAllUnits(r, dev, prices) ==
  LET d == DeviceOf(dev[1], dev[2])
      units == FloorDiv(site_power_limit, d.power)
  IN /\ r.total_revenue = units * d.cap * PriceOf(dev[1], prices)
     /\ r.total_cost = units * d.power * prices.energy_price
     /\ r.total_profit = r.total_revenue - r.total_cost

\* C11 (single-category baseline): a baseline whose category holds a device
\* reports the totals of units = floor(budget / powerWatts) of one device of
\* its category whose profitPerWatt is the highest of that category:
\* revenue = units * capability * category price, cost = units * powerWatts *
\* energyPrice, profit = revenue - cost.
C11_BaselineTotals ==
  \A c \in Calls :
    (BaselineDone(c) /\ DevicesOf(CategoryOf(frame[c].strategy)) # {})
      => \E dev \in DevicesOf(CategoryOf(frame[c].strategy)) :
           /\ \A other \in DevicesOf(CategoryOf(frame[c].strategy)) :
                RateGE(dev, other, frame[c].prices)
           /\ TotalsOfAllUnits(result[c], dev, frame[c].prices)

\* A mining-only summary on a catalog of two miners of different rates, the
\* better one second, and an inference device of a higher rate still.
C11_Witness ==
  \E c \in Calls :
    /\ BaselineDone(c) /\ frame[c].strategy = "mining_only"
    /\ Len(inventory.miners) = 2
    /\ ~RateGE(<<"miner", 1>>, <<"miner", 2>>, frame[c].prices)
    /\ result[c].total_profit > 0
    /\ result[c].total_cost > 0

\* C12 as stated (zero plan of a baseline): a baseline whose category holds
\* no device, or only devices of profitPerWatt <= 0, returns the zero plan,
\* and no baseline reports a negative total_profit.
C12_BaselineZeroPlan ==
  \A c \in Calls :
    (BaselineDone(c) /\ ValidCatalog /\ site_power_limit >= 0)
      => /\ (\A dev \in DevicesOf(CategoryOf(frame[c].strategy)) :
               ~Profitable(dev, frame[c].prices))
              => result[c] = ZeroSummary
         /\ result[c].total_profit >= 0

\* The locals of a call of the optimizer at the head of its greedy loop.
FirstFrame(p) ==
  [pc |-> "walk", strategy |-> "optimal", prices |-> p,
   machine_efficiency |-> SortDesc(BuildEfficiency(inventory, p)),
   i |-> 1, allocation |-> <<>>, remaining_power |-> site_power_limit,
   total_profit |-> 0, total_revenue |-> 0, total_cost |-> 0]

RECURSIVE WalkFrom(_)
\* The locals at the end of the greedy loop, when the loop runs from f on
\* with no other call in between.
WalkFrom(f) ==
  IF f.i > Len(f.machine_efficiency) THEN f
  ELSE LET machine == f.machine_efficiency[f.i]
           max_units == MaxUnits(f.remaining_power, machine.power)
           entry == AllocationEntry(machine, max_units, f.prices.energy_price)
       IN IF Unprofitable(machine) \/ ~(max_units > 0)
          THEN WalkFrom([f EXCEPT !.i = @ + 1])
          ELSE WalkFrom([f EXCEPT !.i = @ + 1,
                                  !.allocation = DictSet(@, entry),
                                  !.remaining_power = @ - max_units * machine.power,
                                  !.total_profit = @ + entry.profit,
                                  !.total_revenue = @ + entry.revenue,
                                  !.total_cost = @ + entry.cost])

\* What a strategy returns or raises when called alone on snapshot p, the
\* plan's time of return left at 0.
Alone(strategy, p) ==
  IF strategy = "mining_only" THEN mining_only_strategy(inventory, site_power_limit, p)
  ELSE IF strategy = "inference_only" THEN inference_only_strategy(inventory, site_power_limit, p)
  ELSE IF DividesByZero(inventory.miners) \/ DividesByZero(inventory.inference)
       THEN Raised("ZeroDivisionError")
       ELSE Plan(WalkFrom(FirstFrame(p)), site_power_limit, 0)

\* Record rec is the record of row: its timestamp and the totals of the
\* strategy called on the row alone.
RecordOf(rec, row, strategy) ==
  LET r == Alone(strategy, RowPrices(row))
  IN /\ r.kind \in {"plan", "summary"}
     /\ rec.timestamp = row.timestamp
     /\ rec.profit = r.total_profit
     /\ rec.revenue = r.total_revenue
     /\ rec.cost = r.total_cost
     /\ rec.roi = r.roi_percentage

\* The rows of the table, none when the table is absent.
History == IF pricing.exists THEN pricing.rows ELSE <<>>

\* C13 (one record per snapshot): for a non-empty history the records the
\* simulator returns are as many as the snapshots and in their order; record
\* i carries the timestamp of snapshot i and the profit, revenue, cost and
\* roi its strategy returns when called on snapshot i alone; the same holds
\* of the records collected so far at every moment of the loop.
C13_OneRecordPerSnapshot ==
  /\ sim.pc = "loop"
       => /\ Len(sim.results) = sim.k - 1
          /\ \A i \in 1..Len(sim.results) : RecordOf(sim.results[i], History[i], sim.strategy)
  /\ (sim_results.kind = "frame" /\ History # <<>>)
       => /\ Len(sim_results.records) = Len(History)
          /\ \A i \in 1..Len(History) : RecordOf(sim_results.records[i], History[i], sim.strategy)

\* An optimal simulation that returned two records of different profit, the
\* later snapshot bearing the earlier timestamp.
C13_Witness ==
  /\ sim.pc = "done" /\ sim.strategy = "optimal"
  /\ sim_results.kind = "frame"
  /\ Len(sim_results.records) = 2
  /\ sim_results.records[1].timestamp > sim_results.records[2].timestamp
  /\ sim_results.records[1].profit > sim_results.records[2].profit
  /\ sim_results.records[2].profit > 0

C15_NoPartialResults ==
  sim.pc = "done"
    => /\ (\E i \in 1..Len(History) : Alone(sim.strategy, RowPrices(History[i])).kind = "raised")
            => sim_results = Raised("ZeroDivisionError")
       /\ sim_results.kind = "frame"
            => \A i \in 1..Len(History) :
                 Alone(sim.strategy, RowPrices(History[i])).kind # "raised"

\* A mining-only simulation over two snapshots that failed on a miner of
\* power 0, the inference device being well-formed.
C15_Witness ==
  /\ sim.pc = "done" /\ sim.strategy = "mining_only"
  /\ Len(History) = 2
  /\ inventory.miners[1].power = 0 /\ inventory.inference[1].power > 0
  /\ sim_results.kind = "raised"

\* The optimizer returned a plan for the example: the default inventory, the
\* default prices and the budget of 1,000,000 W.
ExampleReturned ==
  /\ Returned("c1")
  /\ inventory = DefaultInventory
  /\ site_power_limit = Watts(1000000)
  /\ frame["c1"].prices = DefaultPrices

\* C16 (the example): on the default inventory, prices energy 0.65, hash
\* 8.5, token 3.0 and a budget of 1,000,000 W the plan has exactly two
\* entries, asic (inference 2) with 66 units and powerUsed 990,000 W, then
\* hydro (miner 2) with 2 units and powerUsed 10,000 W, and the totals
\* totalPowerUsed 1,000,000 W, totalRevenue 9,985,000, totalCost 650,000,
\* totalProfit 9,335,000; gpu, air and immersion have no entry.
C16_Example ==
  ExampleReturned
    => LET r == result["c1"]
       IN /\ Len(r.allocation) = 2
          /\ r.allocation[1].type = "inference" /\ r.allocation[1].subtype = 2
          /\ r.allocation[1].units = 66
          /\ r.allocation[1].power_used = Watts(990000)
          /\ r.allocation[2].type = "miner" /\ r.allocation[2].subtype = 2
          /\ r.allocation[2].units = 2
          /\ r.allocation[2].power_used = Watts(10000)
          /\ r.total_power_used = Watts(1000000)
          /\ r.total_revenue = 9985000
          /\ r.total_cost = 650000
          /\ r.total_profit = 9335000

\* The plan of the example has been returned.
C16_Witness == ExampleReturned /\ result["c1"].allocation # <<>>

\* The call on frame c, run on from where it stands with no step of another
\* call in between, ends as the same call run alone from its start does.
AsAlone(c) ==
  /\ frame[c].pc = "walk"
       => Plan(WalkFrom(frame[c]), site_power_limit, 0)
            = Alone("optimal", frame[c].prices)
  /\ frame[c].pc = "done"
       => Untimed(result[c]) = Alone(frame[c].strategy, frame[c].prices)

\* C17 (no shared mutation): no step of an allocation call changes the
\* inventory or site_power_limit, and under every interleaving of two calls
\* each call stands, and in the end returns, as it would when run alone on
\* its snapshot (the time of return aside).
C17_NoInterference ==
  /\ [][inventory' = inventory /\ site_power_limit' = site_power_limit]_vars
  /\ [](\A c \in Calls : AsAlone(c))

\* Two optimizer calls on different snapshots are both in the middle of
\* their loops, each with an entry stored.
C17_Witness ==
  /\ frame["c1"].pc = "walk" /\ frame["c2"].pc = "walk"
  /\ frame["c1"].i = 2 /\ frame["c2"].i = 2
  /\ frame["c1"].prices # frame["c2"].prices
  /\ frame["c1"].allocation # <<>> /\ frame["c2"].allocation # <<>>
  /\ frame["c1"].allocation # frame["c2"].allocation

\* One iteration of the greedy loop from locals f to locals g is a maximal
\* fill: the next machine of the same list is considered; with units =
\* floor((budget - powerUsed of the entries so far) / powerWatts), a
\* profitable machine with units > 0 gets its entry behind the earlier ones
\* and the remaining budget and the totals move by that entry; any other
\* machine leaves entries, remaining budget and totals as they were.
MaximalFill(f, g) ==
  LET machine == f.machine_efficiency[f.i]
      dev == <<machine.type, machine.subtype>>
      remainingBudget == site_power_limit - SumOver(f.allocation, "power_used")
      units == FloorDiv(remainingBudget, DeviceOf(dev[1], dev[2]).power)
  IN /\ g.i = f.i + 1
     /\ g.machine_efficiency = f.machine_efficiency
     /\ f.remaining_power = remainingBudget
     /\ IF Profitable(dev, f.prices) /\ units > 0
        THEN /\ Len(g.allocation) = Len(f.allocation) + 1
             /\ SubSeq(g.allocation, 1, Len(f.allocation)) = f.allocation
             /\ g.allocation[Len(g.allocation)].type = dev[1]
             /\ g.allocation[Len(g.allocation)].subtype = dev[2]
             /\ g.allocation[Len(g.allocation)].units = units
             /\ g.allocation[Len(g.allocation)].power_used
                  = units * DeviceOf(dev[1], dev[2]).power
             /\ g.remaining_power
                  = remainingBudget - units * DeviceOf(dev[1], dev[2]).power
        ELSE /\ g.allocation = f.allocation
             /\ g.remaining_power = f.remaining_power
             /\ g.total_profit = f.total_profit
             /\ g.total_revenue = f.total_revenue
             /\ g.total_cost = f.total_cost

\* The list walked holds every device of the catalog once.
EachOnce(machine_efficiency) ==
  /\ Len(machine_efficiency) = Cardinality(Devices)
  /\ \A dev \in Devices :
       \E j \in 1..Len(machine_efficiency) :
         machine_efficiency[j].type = dev[1] /\ machine_efficiency[j].subtype = dev[2]

\* C18 (single-pass maximal fill): the walk considers every device once, in
\* the order of its list; every iteration is a maximal fill on the budget
\* the earlier entries left; and the plan returned holds the entries as the
\* iterations stored them, none revised.
C18_SinglePassMaximalFill ==
  [][\A c \in Calls :
       /\ (frame[c].pc = "idle" /\ frame'[c].pc = "walk")
            => /\ frame'[c].i = 1 /\ frame'[c].allocation = <<>>
               /\ EachOnce(frame'[c].machine_efficiency)
       /\ (frame[c].pc = "walk" /\ frame'[c].pc = "walk" /\ frame'[c] # frame[c])
            => MaximalFill(frame[c], frame'[c])
       /\ (frame[c].pc = "walk" /\ frame'[c].pc = "done")
            => /\ frame[c].i = Len(frame[c].machine_efficiency) + 1
               /\ result'[c].kind = "plan"
               /\ result'[c].allocation = frame[c].allocation]_vars

\* Both devices of a walk have been considered: the first holds an entry of
\* two units or more, the second is profitable and found no room.
C18_Witness ==
  LET f == frame["c1"]
  IN /\ f.pc = "walk" /\ f.i = 3
     /\ Len(f.allocation) = 1
     /\ f.allocation[1].units >= 2
     /\ f.allocation[1].subtype = f.machine_efficiency[1].subtype
     /\ f.allocation[1].type = f.machine_efficiency[1].type
     /\ Profitable(<<f.machine_efficiency[2].type, f.machine_efficiency[2].subtype>>, f.prices)

\* The device of a machine of the list, as <<category, position>>.
DevOf(machine) == <<machine.type, machine.subtype>>

\* The allocation holds an entry for the device.
HasEntry(allocation, dev) ==
  \E j \in 1..Len(allocation) :
    allocation[j].type = dev[1] /\ allocation[j].subtype = dev[2]

\* profitPerWatt of a > profitPerWatt of b.
RateHigher(a, b, prices) == ~RateGE(b, a, prices)

\* C19 as stated (no substitution): when a profitable device has no entry
\* because it did not fit, no device of a lower profitPerWatt has an entry in
\* the plan.
C19_NoLowerRateAfterNoFit ==
  \A c \in Calls :
    (Returned(c) /\ ValidCatalog /\ site_power_limit >= 0)
      => \A a \in Devices, b \in Devices :
           (/\ Profitable(a, frame[c].prices)
            /\ ~HasEntry(result[c].allocation, a)
            /\ RateHigher(a, b, frame[c].prices))
             => ~HasEntry(result[c].allocation, b)

\* The power used by the entries of the machines before position j.
UsedBefore(f, j) ==
  SumOver(SelectSeq(f.allocation,
                    LAMBDA e : \E k \in 1..(j - 1) :
                                 DevOf(f.machine_efficiency[k]) = <<e.type, e.subtype>>),
          "power_used")

\* C19 (a device that did not fit, amended): a device the walk has passed
\* holds an entry exactly if it is profitable and its powerWatts fit the
\* budget left by the entries of the devices before it; a profitable device
\* that did not fit gets no entry later on, and a device of a lower
\* profitPerWatt that does fit what is left is allocated after it.
C19_FitsOrSkipped ==
  \A c \in Calls :
    frame[c].pc = "walk"
      => \A j \in 1..(frame[c].i - 1) :
           HasEntry(frame[c].allocation, DevOf(frame[c].machine_efficiency[j]))
             <=> /\ Profitable(DevOf(frame[c].machine_efficiency[j]), frame[c].prices)
                 /\ DeviceOf(frame[c].machine_efficiency[j].type,
                             frame[c].machine_efficiency[j].subtype).power
                      <= site_power_limit - UsedBefore(frame[c], j)

\* A walk over two devices on a valid catalog: the first is profitable and
\* did not fit, the second has a lower rate and holds an entry.
C19_Witness ==
  LET f == frame["c1"]
  IN /\ f.pc = "walk" /\ f.i = 3 /\ ValidCatalog
     /\ Profitable(DevOf(f.machine_efficiency[1]), f.prices)
     /\ ~HasEntry(f.allocation, DevOf(f.machine_efficiency[1]))
     /\ RateHigher(DevOf(f.machine_efficiency[1]), DevOf(f.machine_efficiency[2]), f.prices)
     /\ HasEntry(f.allocation, DevOf(f.machine_efficiency[2]))

\* The position in the list of the first machine of a category (0 if none).
FirstOf(machine_efficiency, type) ==
  IF \E j \in 1..Len(machine_efficiency) : machine_efficiency[j].type = type
  THEN CHOOSE j \in 1..Len(machine_efficiency) :
         /\ machine_efficiency[j].type = type
         /\ \A k \in 1..(j - 1) : machine_efficiency[k].type # type
  ELSE 0

\* The device the baseline of a category selects on the snapshot (position
\* 0 if the category is empty).
SelectedBy(type, prices) ==
  IF type = "miner"
  THEN Best(inventory.miners, prices.hash_price, prices.energy_price)
  ELSE Best(inventory.inference, prices.token_price, prices.energy_price)

\* profitPerWatt of a = profitPerWatt of b.
RateTie(a, b, prices) == RateGE(a, b, prices) /\ RateGE(b, a, prices)

\* C20 (ties): on the snapshot of an optimizer call, the device the baseline
\* of a category selects is the first device of that category in the
\* optimizer's sorted list; it is the earliest in catalog order of the
\* category's devices of the highest profitPerWatt; and of a miner and an
\* inference device of equal profitPerWatt the miner stands first in the
\* list.
C20_SameTieBreak ==
  \A c \in Calls :
    frame[c].pc = "walk"
      => LET list == frame[c].machine_efficiency
             prices == frame[c].prices
         IN /\ \A type \in {"miner", "inference"} :
                 DevicesOf(type) # {}
                   => /\ list[FirstOf(list, type)].subtype = SelectedBy(type, prices)
                      /\ \A other \in DevicesOf(type) :
                           /\ RateGE(<<type, SelectedBy(type, prices)>>, other, prices)
                           /\ RateTie(<<type, SelectedBy(type, prices)>>, other, prices)
                                => SelectedBy(type, prices) <= other[2]
            /\ \A j \in 1..Len(list), k \in 1..Len(list) :
                 (/\ list[j].type = "miner" /\ list[k].type = "inference"
                  /\ RateTie(DevOf(list[j]), DevOf(list[k]), prices))
                   => j < k

\* An optimizer call on a catalog of two different miners of the same
\* positive profitPerWatt.
C20_Witness ==
  /\ frame["c1"].pc = "walk"
  /\ Len(inventory.miners) = 2
  /\ inventory.miners[1] # inventory.miners[2]
  /\ RateTie(<<"miner", 1>>, <<"miner", 2>>, frame["c1"].prices)
  /\ Profitable(<<"miner", 1>>, frame["c1"].prices)

\* The budget a plan leaves unused.
Unused(r) == site_power_limit - r.total_power_used

\* C21 (stranded budget): when the optimizer returns on a valid catalog and
\* a budget >= 0, the unused budget is >= 0 and smaller than the powerWatts
\* of every device of profitPerWatt > 0, with or without an entry: no
\* profitable device fits what is left.
C21_NothingProfitableFits ==
  \A c \in Calls :
    (Returned(c) /\ ValidCatalog /\ site_power_limit >= 0)
      => /\ Unused(result[c]) >= 0
         /\ \A dev \in Devices :
              Profitable(dev, frame[c].prices)
                => Unused(result[c]) < DeviceOf(dev[1], dev[2]).power

\* A plan on a valid catalog that strands part of the budget, with one
\* profitable device holding an entry and another profitable one without.
C21_Witness ==
  \E c \in Calls :
    /\ Returned(c) /\ ValidCatalog
    /\ Unused(result[c]) > 0
    /\ \E a \in Devices, b \in Devices :
         /\ Profitable(a, frame[c].prices) /\ HasEntry(result[c].allocation, a)
         /\ Profitable(b, frame[c].prices) /\ ~HasEntry(result[c].allocation, b)

\* C22 (shape of a plan): on a valid catalog and a budget >= 0 the plan has
\* totalProfit >= 0, and totalProfit > 0 exactly when it has an entry; every
\* entry has units >= 1 and a profit > 0; and no two entries are of the same
\* (category, subtype).
C22_PlanShape ==
  \A c \in Calls :
    (Returned(c) /\ ValidCatalog /\ site_power_limit >= 0)
      => LET r == result[c]
         IN /\ r.total_profit >= 0
            /\ r.total_profit > 0 <=> r.allocation # <<>>
            /\ \A j \in 1..Len(r.allocation) :
                 /\ r.allocation[j].units >= 1
                 /\ r.allocation[j].profit > 0
            /\ \A j \in 1..Len(r.allocation), k \in 1..Len(r.allocation) :
                 (/\ r.allocation[j].type = r.allocation[k].type
                  /\ r.allocation[j].subtype = r.allocation[k].subtype)
                   => j = k

\* A plan of two entries on a valid catalog that also paid for energy.
C22_Witness ==
  \E c \in Calls :
    /\ Returned(c) /\ ValidCatalog
    /\ Len(result[c].allocation) = 2
    /\ result[c].total_cost > 0
    /\ result[c].total_profit > 0

\* Both requests meet one of the responses the claim lists: 200 with data,
\* 200 with an empty list, or a status other than 200.
ApiResponds == \A n \in 1..2 : api[n].status # 0

\* C23 as stated (always a snapshot): whatever the state of the pricing
\* table (missing, empty, populated) and whatever the API responds (200 with
\* data, 200 with an empty list, not 200), get_latest_prices returns a
\* snapshot, and the optimizer called without prices returns a plan.
C23_AlwaysASnapshot ==
  ApiResponds
    => /\ current_prices # NoResult => current_prices.kind = "prices"
       /\ frame["c1"].pc = "done" => result["c1"].kind = "plan"

====
